---- MODULE Spec2Model ----
(***************************************************************************)
(* HYUNDAI - Distribucion a Equipos.                                       *)
(*                                                                         *)
(* Model of the table distribucion_hyundai_equipos and of the operations   *)
(* of hyundai_distribucion_equipos_v11.py that read or write the counter   *)
(* (meter) columns: the derived counter sequence                           *)
(* (aplicar_secuencia_contador), the last-counter query                    *)
(* (fetch_last_contador_final), backfill_contadores, the entry wizard,     *)
(* editar, eliminar and listar.                                            *)
(*                                                                         *)
(* Numbers.  Liters and counter readings are floats that the code rounds   *)
(* with round(x, 2).  They are modelled as integers counting thousandths   *)
(* (0.001), so that a stored reading can carry a third decimal and         *)
(* round(x, 2) is a real operation (to the nearest multiple of 10).  The   *)
(* values used never end in 5, so no rounding tie arises.                  *)
(*                                                                         *)
(* Cells.  A cell of a REAL column is a record [k, v]:                     *)
(*   k = "null"  SQL NULL (None / NaN once loaded in a DataFrame)          *)
(*   k = "num"   a float, v thousandths                                    *)
(*   k = "text"  a non-numeric text kept as TEXT by SQLite                 *)
(*   k = "nan"   the float NaN (only computed, SQLite stores it as NULL)   *)
(***************************************************************************)
EXTENDS Integers, Sequences, FiniteSets, TLC

VARIABLES tabla, next_id, salida, asistente

vars == <<tabla, next_id, salida, asistente>>

\* ------------------------------------------------------------------------
\* Bounds
\* ------------------------------------------------------------------------
\* Largest id the AUTOINCREMENT key hands out.
MaxId == 2

\* (fecha, hora) pairs of the records: 1 is earlier than 2.
Momentos == {<<1, 2>>, <<2, 1>>}

\* Counter readings found in the table or typed by the operator, in
\* thousandths: 0.004 carries a third decimal, 0.03 does not.
Lecturas == {4, 30}

\* Liters dispensed, in thousandths (0.034).
Litros == {34}

\* Largest id handed out while records are entered and edited.
MaxRegistros == 2

\* Largest id handed out while records are edited.
MaxEditados == 1

\* datetime.now() while the program runs: the date and the HH:MM time.
Hoy == 2

Ahora == 2

\* A text typed as time that is not HH:MM ("9:5"); as a string it sorts after
\* the valid times 1 and 2.
HoraMalformada == 3

\* obtener_precio_diesel_actual(): the price found in the price table, in
\* thousandths of a dollar per gallon (3.000).
PrecioActual == 3000

\* Liters typed in the wizard, in thousandths: 100 liters and -0.034.
LitrosTecleados == {100000, 0 - 34}

\* Hour-meter readings typed, in thousandths: 100, 100.004 and 130 hours.
Horometros == {100000, 100004, 130000}

\* Liters of the records whose counters are all derived, in thousandths:
\* 0.034 carries a third decimal, 30 and 50 liters do not.
LitrosSuma == {34, 30000, 50000}

\* ------------------------------------------------------------------------
\* Cells and float arithmetic
\* ------------------------------------------------------------------------
NULL == [k |-> "null", v |-> 0]

NAN == [k |-> "nan", v |-> 0]

TEXT == [k |-> "text", v |-> 0]

Num(n) == [k |-> "num", v |-> n]

\* round(x, 2) of Python on thousandths: nearest multiple of 10, ties to even.
Round2(n) ==
    LET q == n \div 10
        r == n % 10
    IN  IF r < 5 THEN q * 10
        ELSE IF r > 5 THEN (q + 1) * 10
        ELSE IF q % 2 = 0 THEN q * 10 ELSE (q + 1) * 10

\* round(x, 2) on a float: NaN stays NaN.
FRound2(a) == IF a.k = "num" THEN Num(Round2(a.v)) ELSE NAN

\* a + b on floats: NaN absorbs.
FAdd(a, b) == IF a.k = "num" /\ b.k = "num" THEN Num(a.v + b.v) ELSE NAN

\* a - b on floats: NaN absorbs.
FSub(a, b) == IF a.k = "num" /\ b.k = "num" THEN Num(a.v - b.v) ELSE NAN

\* round(a / b, 2) on floats: the quotient to 4 decimals, then to the
\* nearest hundredth.  Every call site has checked b > 0 before.
FDivRound2(a, b) ==
    IF a.k = "num" /\ b.k = "num" /\ b.v # 0
    THEN LET x == (a.v * 10000) \div b.v
         IN  Num(10 * ((x \div 100) + (IF x % 100 >= 50 THEN 1 ELSE 0)))
    ELSE NAN

\* Variant of litros_a_gal that cuts the third decimal instead of rounding.
litros_a_gal_truncado(litros) ==
    IF litros.k = "num"
    THEN LET micro == (litros.v \div 1000) * 264172
                      + ((litros.v % 1000) * 264172) \div 1000
         IN  Num(10 * (micro \div 10000))
    ELSE NAN

\* round(litros * 0.264172, 2): the product in millionths of a gallon, then
\* to the nearest hundredth.
litros_a_gal(litros) ==
    IF litros.k = "num"
    THEN LET micro == (litros.v \div 1000) * 264172
                      + ((litros.v % 1000) * 264172) \div 1000
         IN  Num(10 * ((micro \div 10000)
                       + (IF micro % 10000 >= 5000 THEN 1 ELSE 0)))
    ELSE NAN

\* round(gal * precio, 2): the product in millionths of a dollar, then to the
\* nearest hundredth.
Costo(gal, precio) ==
    IF gal.k = "num" /\ precio.k = "num"
    THEN Num(10 * ((gal.v * precio.v + 5000) \div 10000))
    ELSE NAN

\* What SQLite keeps of a float bound to a REAL column: NaN becomes NULL.
Bind(a) == IF a.k = "num" THEN a ELSE NULL

\* ------------------------------------------------------------------------
\* Ordering by (fecha, hora, id)
\* ------------------------------------------------------------------------
Antes(a, b) ==
    \/ a.fecha < b.fecha
    \/ a.fecha = b.fecha /\ a.hora < b.hora
    \/ a.fecha = b.fecha /\ a.hora = b.hora /\ a.id < b.id

\* SELECT ... ORDER BY fecha ASC, hora ASC, id ASC over a set of rows.
RECURSIVE SelectAsc(_)
SelectAsc(rows) ==
    IF rows = {} THEN <<>>
    ELSE LET m == CHOOSE x \in rows : \A y \in rows : x = y \/ Antes(x, y)
         IN  <<m>> \o SelectAsc(rows \ {m})

\* SELECT ... ORDER BY fecha DESC, hora DESC, id DESC over a set of rows.
RECURSIVE SelectDesc(_)
SelectDesc(rows) ==
    IF rows = {} THEN <<>>
    ELSE LET m == CHOOSE x \in rows : \A y \in rows : x = y \/ Antes(y, x)
         IN  <<m>> \o SelectDesc(rows \ {m})

\* Insertion of one row into an ascending frame (helper of sort_values).
RECURSIVE InsertSorted(_, _)
InsertSorted(r, df) ==
    IF df = <<>> THEN <<r>>
    ELSE IF Antes(r, Head(df)) THEN <<r>> \o df
    ELSE <<Head(df)>> \o InsertSorted(r, Tail(df))

\* df.sort_values(["fecha", "hora", "id"]).reset_index(drop=True)
RECURSIVE sort_values(_)
sort_values(df) ==
    IF df = <<>> THEN <<>>
    ELSE InsertSorted(Head(df), sort_values(Tail(df)))

\* ------------------------------------------------------------------------
\* aplicar_secuencia_contador
\* ------------------------------------------------------------------------
\* The dtype pandas gives litros_despachados: float64 (NULL read as NaN) as
\* soon as one row holds a number, object (NULL read as None) otherwise.
LitrosFloat64(df) == \E i \in 1..Len(df) : df[i].litros_despachados.k = "num"

\* float(litros) with its except branch: None raises and gives 0.0, NaN is a
\* float and passes through.
LitrosVal(df, i) ==
    LET litros == df[i].litros_despachados
    IN  IF litros.k = "num" THEN litros
        ELSE IF LitrosFloat64(df) THEN NAN
        ELSE Num(0)

\* ci_valid / cf_valid before the defaults: None unless the cell is a number.
FloatOrNone(c) == IF c.k = "num" THEN c ELSE NULL

\* Variant of CiValid that forgets the chain: a missing initial counter
\* always starts at 0.0.
CiValidSinCadena(df, i) ==
    LET ci == FloatOrNone(df[i].contador_inicial)
    IN  IF ci.k = "null" THEN Num(0) ELSE ci

\* prev_final after the loop has processed rows 1..i (NULL stands for None),
\* with ci_valid and cf_valid of row i.
RECURSIVE PrevFinal(_, _)
CiValid(df, i) ==
    LET ci == FloatOrNone(df[i].contador_inicial)
        prev_final == PrevFinal(df, i - 1)
    IN  IF ci.k = "null"
        THEN (IF prev_final.k = "null" THEN Num(0) ELSE prev_final)
        ELSE ci

\* Variant of CfValid that derives a missing final counter without the liters.
CfValidSinLitros(df, i) ==
    LET cf == FloatOrNone(df[i].contador_final)
    IN  IF cf.k = "null" THEN FRound2(CiValid(df, i)) ELSE cf

CfValid(df, i) ==
    LET cf == FloatOrNone(df[i].contador_final)
    IN  IF cf.k = "null"
        THEN FRound2(FAdd(CiValid(df, i), LitrosVal(df, i)))
        ELSE cf

PrevFinal(df, i) == IF i = 0 THEN NULL ELSE CfValid(df, i)

\* Variant of Show that always displays the derived value.
ShowCalc(stored, calc) == calc

\* Series.where(~isna, calc): the stored cell unless it is NULL.
Show(stored, calc) == IF stored.k = "null" THEN calc ELSE stored

\* f"{float(x):.2f}": two decimals, as hundredths; "nan" for NaN.
Fmt2(a) == IF a.k = "num" THEN Num(Round2(a.v) \div 10) ELSE NAN

\* Variant of FilaSalida that writes the derived values over the stored
\* columns of the returned frame.
FilaSalidaSobrescribe(r, ci_calc, cf_calc) ==
    LET ci_show == Show(r.contador_inicial, ci_calc)
        cf_show == Show(r.contador_final, cf_calc)
    IN  [contador_inicial |-> ci_calc,
         contador_final |-> cf_calc,
         contador_inicial_calc |-> ci_calc,
         contador_final_calc |-> cf_calc,
         contador_inicial_show |-> ci_show,
         contador_final_show |-> cf_show,
         Delta_Litros |-> FRound2(FSub(cf_show, ci_show)),
         Secuencia_Contador |-> <<Fmt2(ci_show), Fmt2(cf_show)>>] @@ r

\* One row of the returned frame: the columns of the frame received and the
\* derived ones.
FilaSalida(r, ci_calc, cf_calc) ==
    LET ci_show == Show(r.contador_inicial, ci_calc)
        cf_show == Show(r.contador_final, cf_calc)
    IN  [contador_inicial_calc |-> ci_calc,
         contador_final_calc |-> cf_calc,
         contador_inicial_show |-> ci_show,
         contador_final_show |-> cf_show,
         Delta_Litros |-> FRound2(FSub(cf_show, ci_show)),
         Secuencia_Contador |-> <<Fmt2(ci_show), Fmt2(cf_show)>>] @@ r

\* A text cell survives isna() and makes the subtraction of Delta_Litros
\* raise TypeError.
DeltaRaises(df) ==
    \E i \in 1..Len(df) :
        df[i].contador_inicial.k = "text" \/ df[i].contador_final.k = "text"

\* Variant of aplicar_secuencia_contador that takes the rows in the order
\* received.
aplicar_sin_ordenar(df0) ==
    IF df0 = <<>> THEN [raised |-> FALSE, rows |-> <<>>]
    ELSE IF DeltaRaises(df0) THEN [raised |-> TRUE, rows |-> <<>>]
    ELSE [raised |-> FALSE,
          rows |-> [i \in 1..Len(df0) |->
                      FilaSalida(df0[i], FRound2(CiValid(df0, i)),
                                 FRound2(CfValid(df0, i)))]]

\* The function: [raised, rows].  An empty frame is returned unchanged.
aplicar_secuencia_contador(df0) ==
    LET df == sort_values(df0)
    IN  IF df0 = <<>> THEN [raised |-> FALSE, rows |-> <<>>]
        ELSE IF DeltaRaises(df) THEN [raised |-> TRUE, rows |-> <<>>]
        ELSE [raised |-> FALSE,
              rows |-> [i \in 1..Len(df) |->
                          FilaSalida(df[i], FRound2(CiValid(df, i)),
                                     FRound2(CfValid(df, i)))]]

\* ------------------------------------------------------------------------
\* State
\* ------------------------------------------------------------------------
\* No file written by the operation.
SinArchivo == [escrito |-> FALSE, filas |-> <<>>]

\* What the last operation showed: the count backfill prints (-1: none), the
\* default counter and the default hour-meter reading offered by the entry
\* form (and the equipment it was asked for), the frame listar displays, the
\* month and the template of an export, the message it printed and the file
\* it wrote, the id a store function was called with, the rows fetch_by_id
\* found and the value delete_distribucion returned, the navigation key (B
\* or Q) typed at a prompt of the wizard.
NoSalida == [op |-> "none", updated_rows |-> 0 - 1, ci_default |-> NULL,
             hi_default |-> NULL, equipo |-> "",
             desde |-> 0, out |-> [raised |-> FALSE, rows |-> <<>>],
             mes |-> 0, plantilla |-> "", aviso |-> "",
             archivo |-> SinArchivo, rid |-> 0, rec |-> {}, ok |-> FALSE,
             tecla |-> ""]

\* The wizard when no entry is in progress.
Inactivo == [activo |-> FALSE]

\* The other columns of a row written before the program had hour-meter
\* columns and tipo_registro: ensure_schema adds them, NULL in every row
\* ("NULL" for the text column).
ColumnasLegado ==
    [equipo |-> "E1", volumen_despachado |-> NULL,
     horometro_inicial |-> NULL, horometro_final |-> NULL,
     horas_trabajadas |-> NULL, consumo_por_gl_h |-> NULL,
     precio_diesel |-> NULL, costo_diesel_usd |-> NULL,
     tipo_registro |-> "NULL"]

\* Cells of a REAL column written through sqlite3 with float parameters.
Celdas == {NULL} \cup {Num(n) : n \in Lecturas}

\* Cells of litros_despachados: NULL in the rows older than the column.
CeldasLitros == {NULL} \cup {Num(n) : n \in Litros}

\* Rows that a table created by an older version can hold under id i: any
\* of the columns added by ensure_schema may still be NULL.
FilasLegado(i) ==
    {[id |-> i, fecha |-> m[1], hora |-> m[2], litros_despachados |-> l,
      contador_inicial |-> ci, contador_final |-> cf] @@ ColumnasLegado :
        m \in Momentos, l \in CeldasLitros, ci \in Celdas, cf \in Celdas}

\* Tables holding exactly the ids 1..n.
RECURSIVE TablasLegado(_)
TablasLegado(n) ==
    IF n = 0 THEN {{}}
    ELSE {t \cup {r} : t \in TablasLegado(n - 1), r \in FilasLegado(n)}

Ids == {r.id : r \in tabla}

RowOf(rid) == CHOOSE r \in tabla : r.id = rid

\* ------------------------------------------------------------------------
\* Queries
\* ------------------------------------------------------------------------
\* Variant of fetch_last_contador_final that orders by id alone.
fetch_last_por_id(rows) ==
    LET conFinal == {r \in rows : r.contador_final.k # "null"}
    IN  IF conFinal = {} THEN Num(0)
        ELSE FRound2((CHOOSE r \in conFinal :
                        \A y \in conFinal : y.id <= r.id).contador_final)

\* Variant of fetch_last_contador_final that finds no record.
fetch_last_sin_registros(rows) == Num(0)

\* SELECT contador_final ... WHERE contador_final IS NOT NULL
\* ORDER BY fecha DESC, hora DESC, id DESC LIMIT 1; round(float(.), 2) or 0.0
fetch_last_contador_final(rows) ==
    LET conFinal == {r \in rows : r.contador_final.k # "null"}
    IN  IF conFinal = {} THEN Num(0)
        ELSE FRound2(SelectDesc(conFinal)[1].contador_final)

\* Variant of fetch_last_horometro_final that looks at every equipment.
fetch_last_horometro_global(rows, equipo) ==
    LET conFinal == {r \in rows : r.horometro_final.k # "null"}
    IN  IF conFinal = {} THEN Num(0)
        ELSE FRound2(SelectDesc(conFinal)[1].horometro_final)

\* SELECT horometro_final ... WHERE equipo = ? AND horometro_final IS NOT NULL
\* ORDER BY fecha DESC, hora DESC, id DESC LIMIT 1; round(float(.), 2) or 0.0
fetch_last_horometro_final(rows, equipo) ==
    LET conFinal == {r \in rows : /\ r.equipo = equipo
                                  /\ r.horometro_final.k # "null"}
    IN  IF conFinal = {} THEN Num(0)
        ELSE FRound2(SelectDesc(conFinal)[1].horometro_final)

\* ------------------------------------------------------------------------
\* Operations
\* ------------------------------------------------------------------------
\* ensure_schema creates the table, or finds the table of a version that had
\* no counter columns and adds them: every counter cell starts NULL.
Init ==
    /\ \E n \in 0..MaxId :
          /\ tabla \in {t \in TablasLegado(n) :
                          \A r \in t : /\ r.contador_inicial = NULL
                                       /\ r.contador_final = NULL}
          /\ next_id = n + 1
    /\ salida = NoSalida
    /\ asistente = Inactivo

\* A table whose counter columns already existed: any cell may hold a number
\* or NULL.
InitLegado ==
    /\ \E n \in 0..MaxId : tabla \in TablasLegado(n) /\ next_id = n + 1
    /\ salida = NoSalida
    /\ asistente = Inactivo

\* Counter cells of a table into which another tool wrote text.
CeldasTexto == {NULL, TEXT, Num(30)}

FilasTexto(i) ==
    {[id |-> i, fecha |-> m[1], hora |-> m[2], litros_despachados |-> l,
      contador_inicial |-> ci, contador_final |-> cf] @@ ColumnasLegado :
        m \in Momentos, l \in CeldasLitros, ci \in CeldasTexto,
        cf \in CeldasTexto}

RECURSIVE TablasTexto(_)
TablasTexto(n) ==
    IF n = 0 THEN {{}}
    ELSE {t \cup {r} : t \in TablasTexto(n - 1), r \in FilasTexto(n)}

InitTexto ==
    /\ \E n \in 0..MaxId : tabla \in TablasTexto(n) /\ next_id = n + 1
    /\ salida = NoSalida
    /\ asistente = Inactivo

\* The entry wizard, steps "fecha" .. "contador", and insert_distribucion.
\* An empty answer (NULL) at a counter prompt accepts the offered default.
registrar_sin_horometro(m, litros, ci_in, cf_in) ==
    LET contador_inicial_default == fetch_last_contador_final(tabla)
        contador_inicial ==
            IF ci_in.k = "null" THEN contador_inicial_default ELSE ci_in
        contador_final_calc == FRound2(FAdd(contador_inicial, litros))
        contador_final ==
            IF cf_in.k = "null" THEN contador_final_calc ELSE cf_in
        data == [id |-> next_id, fecha |-> m[1], hora |-> m[2],
                 equipo |-> "E1",
                 litros_despachados |-> litros,
                 volumen_despachado |-> Bind(litros_a_gal(litros)),
                 contador_inicial |-> Bind(FRound2(contador_inicial)),
                 contador_final |-> Bind(FRound2(contador_final)),
                 horometro_inicial |-> NULL, horometro_final |-> NULL,
                 horas_trabajadas |-> NULL, consumo_por_gl_h |-> NULL,
                 precio_diesel |-> Num(PrecioActual),
                 costo_diesel_usd |->
                    Bind(Costo(litros_a_gal(litros), Num(PrecioActual))),
                 tipo_registro |-> "SIN_HOROMETRO"]
    IN  /\ next_id <= MaxId
        /\ tabla' = tabla \cup {data}
        /\ next_id' = next_id + 1
        /\ salida' = [NoSalida EXCEPT !.op = "registrar"]
        /\ UNCHANGED asistente

\* editar: every prompt answered, update_distribucion writes all the fields.
\* An empty answer (NULL, "" for the record kind) keeps the value shown in
\* brackets; equipo, responsable and the price are kept.
editar(rid, m_in, litros_in, ci_in, cf_in, hi_in, hf_in, tipo_in) ==
    LET rec == RowOf(rid)
        litros_old == rec.litros_despachados
        litros_val == IF litros_in.k = "null" THEN litros_old ELSE litros_in
        volumen_gal == IF litros_val.k = "null" THEN rec.volumen_despachado
                       ELSE litros_a_gal(litros_val)
        ci_old == IF rec.contador_inicial.k = "null" THEN Num(0)
                  ELSE rec.contador_inicial
        ci_val == IF ci_in.k = "null" THEN ci_old ELSE ci_in
        litros_or_0 == IF litros_val.k = "null" THEN Num(0) ELSE litros_val
        cf_sugerido == FRound2(FAdd(ci_val, litros_or_0))
        cf_val == IF cf_in.k = "null" THEN cf_sugerido ELSE cf_in
        hi_val == IF hi_in.k = "null" THEN rec.horometro_inicial ELSE hi_in
        hf_val == IF hf_in.k = "null" THEN rec.horometro_final ELSE hf_in
        ambos == hi_val.k = "num" /\ hf_val.k = "num"
        horas_calc == FRound2(FSub(hf_val, hi_val))
        positivas == ambos /\ horas_calc.v > 0
        horas == IF positivas THEN horas_calc ELSE rec.horas_trabajadas
        consumo ==
            IF ~positivas THEN rec.consumo_por_gl_h
            ELSE IF volumen_gal.k = "null" THEN NULL
            ELSE FDivRound2(volumen_gal, horas)
        precio_val == rec.precio_diesel
        costo ==
            IF precio_val.k # "null" /\ volumen_gal.k # "null"
            THEN Costo(volumen_gal, precio_val) ELSE rec.costo_diesel_usd
        data == [id |-> rid,
                 fecha |-> IF m_in = <<>> THEN rec.fecha ELSE m_in[1],
                 hora |-> IF m_in = <<>> THEN rec.hora ELSE m_in[2],
                 equipo |-> rec.equipo,
                 litros_despachados |-> litros_val,
                 volumen_despachado |-> Bind(volumen_gal),
                 contador_inicial |-> Bind(ci_val),
                 contador_final |-> Bind(cf_val),
                 horometro_inicial |-> hi_val,
                 horometro_final |-> hf_val,
                 horas_trabajadas |-> Bind(horas),
                 consumo_por_gl_h |-> Bind(consumo),
                 precio_diesel |-> precio_val,
                 costo_diesel_usd |-> Bind(costo),
                 tipo_registro |-> IF tipo_in = "" THEN rec.tipo_registro
                                   ELSE tipo_in]
    IN  /\ UNCHANGED <<next_id, asistente>>
        /\ IF rid \notin Ids
           THEN /\ salida' = [NoSalida EXCEPT !.op = "no_existe", !.rid = rid]
                /\ UNCHANGED tabla
           ELSE /\ tabla' = (tabla \ {rec}) \cup {data}
                /\ salida' = [NoSalida EXCEPT !.op = "editar"]

\* eliminar, confirmed with SI: delete_distribucion.
eliminar(rid) ==
    /\ UNCHANGED <<next_id, asistente>>
    /\ IF rid \notin Ids
       THEN /\ salida' = [NoSalida EXCEPT !.op = "no_existe", !.rid = rid]
            /\ UNCHANGED tabla
       ELSE /\ tabla' = {r \in tabla : r.id # rid}
            /\ salida' = [NoSalida EXCEPT !.op = "eliminar"]

\* Variant of delete_distribucion whose DELETE has no WHERE clause.
delete_sin_where(rid) ==
    /\ tabla' = {}
    /\ salida' = [NoSalida EXCEPT !.op = "delete_distribucion", !.rid = rid,
                     !.ok = tabla # {}]
    /\ UNCHANGED <<next_id, asistente>>

\* DELETE ... WHERE id=?; returns cur.rowcount > 0.
delete_distribucion(rid) ==
    /\ tabla' = {r \in tabla : r.id # rid}
    /\ salida' = [NoSalida EXCEPT !.op = "delete_distribucion", !.rid = rid,
                     !.ok = rid \in Ids]
    /\ UNCHANGED <<next_id, asistente>>

\* SELECT ... WHERE id=?; the row found, None (no row) otherwise.
fetch_by_id(rid) ==
    /\ salida' = [NoSalida EXCEPT !.op = "fetch_by_id", !.rid = rid,
                     !.rec = {r \in tabla : r.id = rid}]
    /\ UNCHANGED <<tabla, next_id, asistente>>

\* UPDATE ... SET the columns of data WHERE id=?
update_distribucion(rid, data) ==
    /\ tabla' = {IF r.id = rid THEN data @@ r ELSE r : r \in tabla}
    /\ salida' = [NoSalida EXCEPT !.op = "update_distribucion", !.rid = rid]
    /\ UNCHANGED <<next_id, asistente>>

\* Variant of Backfilled that issues the UPDATE for every row.
BackfilledTodo(r, fila) ==
    [r EXCEPT !.contador_inicial = Bind(fila.contador_inicial_calc),
              !.contador_final = Bind(fila.contador_final_calc)]

\* Variant of Backfilled that starts every record without stored initial
\* counter at 0.0.
BackfilledDesdeCero(r, fila) ==
    IF r.contador_inicial.k = "null"
    THEN [r EXCEPT !.contador_inicial = Num(0),
                   !.contador_final = Bind(fila.contador_final_calc)]
    ELSE IF r.contador_final.k = "null"
    THEN [r EXCEPT !.contador_inicial = Bind(fila.contador_inicial_calc),
                   !.contador_final = Bind(fila.contador_final_calc)]
    ELSE r

\* The row of the table after the UPDATE of backfill for frame row r.
Backfilled(r, fila) ==
    IF r.contador_inicial.k = "null" \/ r.contador_final.k = "null"
    THEN [r EXCEPT !.contador_inicial = Bind(fila.contador_inicial_calc),
                   !.contador_final = Bind(fila.contador_final_calc)]
    ELSE r

\* Rows for which backfill issues its UPDATE.
Needs(rows) ==
    {r \in rows : r.contador_inicial.k = "null" \/ r.contador_final.k = "null"}

backfill_contadores ==
    LET df == SelectAsc(tabla)
        res == aplicar_secuencia_contador(df)
        fila(rid) == CHOOSE f \in {res.rows[i] : i \in 1..Len(res.rows)} :
                        f.id = rid
    IN  /\ UNCHANGED <<next_id, asistente>>
        /\ IF tabla = {}
           THEN /\ salida' = [NoSalida EXCEPT !.op = "backfill"]
                /\ UNCHANGED tabla
           ELSE IF res.raised
           THEN /\ salida' = [NoSalida EXCEPT !.op = "backfill_error"]
                /\ UNCHANGED tabla
           ELSE /\ tabla' = {Backfilled(r, fila(r.id)) : r \in tabla}
                /\ salida' = [NoSalida EXCEPT !.op = "backfill",
                                 !.updated_rows = Cardinality(Needs(tabla))]

\* WHERE fecha >= desde (0: the filter left empty).
Filtrar(rows, desde) == {r \in rows : desde = 0 \/ r.fecha >= desde}

\* listar with the "Desde" filter: the rows newest first, then the derived
\* sequence.
listar(desde) ==
    LET df == SelectDesc(Filtrar(tabla, desde))
    IN  /\ salida' = [NoSalida EXCEPT !.op = "listar", !.desde = desde,
                         !.out = aplicar_secuencia_contador(df)]
        /\ UNCHANGED <<tabla, next_id, asistente>>

\* The entry form shows the default initial counter (last_contador_final).
last_contador_final ==
    /\ salida' = [NoSalida EXCEPT !.op = "last_contador_final",
                     !.ci_default = fetch_last_contador_final(tabla)]
    /\ UNCHANGED <<tabla, next_id, asistente>>

EntradaCelda == {NULL} \cup {Num(n) : n \in Lecturas}

\* The entry form shows the default initial hour-meter reading of the
\* equipment chosen (last_horometro_final).
last_horometro_final(equipo) ==
    /\ salida' = [NoSalida EXCEPT
                     !.op = "last_horometro_final", !.equipo = equipo,
                     !.hi_default = fetch_last_horometro_final(tabla, equipo)]
    /\ UNCHANGED <<tabla, next_id, asistente>>

\* ------------------------------------------------------------------------
\* Export of a month
\* ------------------------------------------------------------------------
\* The month of a date (fecha LIKE 'YYYY-MM-%'): dates 1 and 2 are days of
\* month 1, dates 3 and 4 days of month 2.
MesDe(fecha) == (fecha + 1) \div 2

\* SELECT ... WHERE fecha LIKE ? ORDER BY fecha ASC, hora ASC, id ASC
DelMes(rows, mes) == SelectAsc({r \in rows : MesDe(r.fecha) = mes})

\* The counter column written to the sheet: the derived values when the
\* stored column is NULL in every row of the month, the stored ones otherwise.
ColumnaExportada(todasNulas, stored, calc) ==
    IF todasNulas THEN calc ELSE stored

\* out: the columns of EXPORT_COLS, one row per record of the month.
FilasExportadas(df) ==
    LET ci_nulas == \A i \in 1..Len(df) : df[i].contador_inicial.k = "null"
        cf_nulas == \A i \in 1..Len(df) : df[i].contador_final.k = "null"
    IN  [i \in 1..Len(df) |->
           [fecha |-> df[i].fecha, equipo |-> df[i].equipo,
            volumen_despachado |-> df[i].volumen_despachado,
            litros_despachados |-> df[i].litros_despachados,
            horas_trabajadas |-> df[i].horas_trabajadas,
            horometro_inicial |-> df[i].horometro_inicial,
            horometro_final |-> df[i].horometro_final,
            contador_inicial |->
               ColumnaExportada(ci_nulas, df[i].contador_inicial,
                                df[i].contador_inicial_calc),
            contador_final |->
               ColumnaExportada(cf_nulas, df[i].contador_final,
                                df[i].contador_final_calc),
            consumo_por_gl_h |-> df[i].consumo_por_gl_h]]

\* exportar_mes of the console: mes 0 stands for a text that is not YYYY-MM,
\* plantilla for what is found at the template path.
exportar_mes(mes, plantilla) ==
    LET res == aplicar_secuencia_contador(DelMes(tabla, mes))
        aviso == IF mes = 0 THEN "formato"
                 ELSE IF res.rows = <<>> THEN "sin_registros"
                 ELSE IF plantilla = "ausente" THEN "sin_plantilla"
                 ELSE IF plantilla = "sin_hoja" THEN "sin_hoja"
                 ELSE "exportado"
    IN  /\ UNCHANGED <<tabla, next_id, asistente>>
        /\ IF mes # 0 /\ res.raised
           THEN salida' = [NoSalida EXCEPT !.op = "exportar_error"]
           ELSE salida' =
                  [NoSalida EXCEPT
                     !.op = "exportar_mes", !.mes = mes,
                     !.plantilla = plantilla, !.aviso = aviso,
                     !.archivo =
                        IF aviso = "exportado"
                        THEN [escrito |-> TRUE,
                              filas |-> FilasExportadas(res.rows)]
                        ELSE SinArchivo]

\* Tab "Exportar" of the web form: the template must exist, the frame is
\* written with DataFrame.to_excel.
exportar_web(mes, plantilla) ==
    LET res == aplicar_secuencia_contador(DelMes(tabla, mes))
        aviso == IF mes = 0 THEN "formato"
                 ELSE IF plantilla = "ausente" THEN "sin_plantilla"
                 ELSE IF res.rows = <<>> THEN "sin_registros"
                 ELSE "exportado"
    IN  /\ UNCHANGED <<tabla, next_id, asistente>>
        /\ IF mes # 0 /\ plantilla # "ausente" /\ res.raised
           THEN salida' = [NoSalida EXCEPT !.op = "exportar_error"]
           ELSE salida' =
                  [NoSalida EXCEPT
                     !.op = "exportar_web", !.mes = mes,
                     !.plantilla = plantilla, !.aviso = aviso,
                     !.archivo =
                        IF aviso = "exportado"
                        THEN [escrito |-> TRUE, filas |-> res.rows]
                        ELSE SinArchivo]

\* ------------------------------------------------------------------------
\* The entry wizard, step by step
\* ------------------------------------------------------------------------
\* steps of registrar_con_horometro and of registrar_sin_horometro.
steps(tipo) ==
    IF tipo = "HOROMETRO"
    THEN <<"fecha", "hora", "equipo", "responsable", "litros", "contador",
           "horometro", "precio">>
    ELSE <<"fecha", "hora", "equipo", "responsable", "litros", "contador",
           "precio">>

\* state = {}: no key set yet (0, "" and NULL stand for a missing key).
EstadoVacio ==
    [fecha |-> 0, hora |-> 0, equipo |-> "",
     litros_despachados |-> NULL, volumen_despachado_gal |-> NULL,
     contador_inicial |-> NULL, contador_final |-> NULL,
     horometro_inicial |-> NULL, horometro_final |-> NULL,
     horas_trabajadas |-> NULL, consumo_por_gl_h |-> NULL,
     precio_diesel |-> NULL]

\* The step the wizard is asking (i counts from 1 here, from 0 in the code).
Paso == steps(asistente.tipo)[asistente.i]

EnPaso(nombre) == asistente.activo /\ Paso = nombre

\* data of the wizard: the hour-meter keys are None in registrar_sin_horometro.
DatosAsistente(rid, tipo, state) ==
    [id |-> rid, fecha |-> state.fecha, hora |-> state.hora,
     equipo |-> state.equipo,
     litros_despachados |-> Bind(state.litros_despachados),
     volumen_despachado |-> Bind(state.volumen_despachado_gal),
     contador_inicial |-> Bind(state.contador_inicial),
     contador_final |-> Bind(state.contador_final),
     horometro_inicial |->
        IF tipo = "HOROMETRO" THEN Bind(state.horometro_inicial) ELSE NULL,
     horometro_final |->
        IF tipo = "HOROMETRO" THEN Bind(state.horometro_final) ELSE NULL,
     horas_trabajadas |->
        IF tipo = "HOROMETRO" THEN Bind(state.horas_trabajadas) ELSE NULL,
     consumo_por_gl_h |->
        IF tipo = "HOROMETRO" THEN Bind(state.consumo_por_gl_h) ELSE NULL,
     precio_diesel |-> Bind(state.precio_diesel),
     costo_diesel_usd |->
        IF state.precio_diesel.k = "null" THEN NULL
        ELSE Bind(Costo(state.volumen_despachado_gal, state.precio_diesel)),
     tipo_registro |-> tipo]

\* i += 1; continue
Avanza(state) ==
    /\ asistente' = [asistente EXCEPT !.i = @ + 1, !.state = state]
    /\ salida' = [NoSalida EXCEPT !.op = "paso"]
    /\ UNCHANGED <<tabla, next_id>>

\* The prompt is shown again: a warning is printed and nothing is kept.
Repite ==
    /\ salida' = [NoSalida EXCEPT !.op = "invalido"]
    /\ UNCHANGED <<tabla, next_id, asistente>>

\* Menu options 1 and 2: the wizard starts with an empty state.
iniciar_registro(tipo) ==
    /\ ~asistente.activo
    /\ next_id <= MaxRegistros
    /\ asistente' = [activo |-> TRUE, tipo |-> tipo, i |-> 1,
                     state |-> EstadoVacio]
    /\ salida' = [NoSalida EXCEPT !.op = "inicio"]
    /\ UNCHANGED <<tabla, next_id>>

\* The steps whose prompt takes B and Q: all but "responsable" of
\* registrar_con_horometro, which uses seleccionar_lista.
ConNavegacion ==
    /\ asistente.activo
    /\ ~(asistente.tipo = "HOROMETRO" /\ Paso = "responsable")

\* Variant of cancelar that stores what has been answered so far.
cancelar_guardando ==
    /\ ConNavegacion
    /\ tabla' = tabla \cup
                  {DatosAsistente(next_id, asistente.tipo, asistente.state)}
    /\ next_id' = next_id + 1
    /\ asistente' = Inactivo
    /\ salida' = [NoSalida EXCEPT !.op = "cancelado"]

\* Q at a prompt: print("Cancelado."); return.  seleccionar_lista answers
\* "Selección inválida." and asks again.
cancelar ==
    /\ asistente.activo
    /\ UNCHANGED <<tabla, next_id>>
    /\ IF ConNavegacion
       THEN /\ asistente' = Inactivo
            /\ salida' = [NoSalida EXCEPT !.op = "cancelado", !.tecla = "Q"]
       ELSE /\ salida' = [NoSalida EXCEPT !.op = "invalido", !.tecla = "Q"]
            /\ UNCHANGED asistente

\* B at a prompt: i = max(i-1, 0); continue.  seleccionar_lista answers
\* "Selección inválida." and asks again.
retroceder ==
    /\ asistente.activo
    /\ UNCHANGED <<tabla, next_id>>
    /\ IF ConNavegacion
       THEN /\ asistente' = [asistente EXCEPT
                                !.i = IF @ > 1 THEN @ - 1 ELSE 1]
            /\ salida' = [NoSalida EXCEPT !.op = "retrocede", !.tecla = "B"]
       ELSE /\ salida' = [NoSalida EXCEPT !.op = "invalido", !.tecla = "B"]
            /\ UNCHANGED asistente

\* Step "fecha": parse_fecha_flexible; "" is today, "mal" raises ValueError.
paso_fecha(val) ==
    /\ EnPaso("fecha")
    /\ IF val = "mal" THEN Repite
       ELSE Avanza([asistente.state EXCEPT !.fecha = Hoy])

\* Step "hora": the text typed is kept as it is, "" (0) is the time now.
paso_hora(val) ==
    /\ EnPaso("hora")
    /\ Avanza([asistente.state EXCEPT
                  !.hora = IF val = 0 THEN Ahora ELSE val])

\* Step "equipo": one of EQUIPOS.
paso_equipo(val) ==
    /\ EnPaso("equipo")
    /\ Avanza([asistente.state EXCEPT !.equipo = val])

\* Step "responsable": one of RESPONSABLES.
paso_responsable ==
    /\ EnPaso("responsable")
    /\ Avanza(asistente.state)

\* Step "litros": pedir_float_nav asks again until float(s) succeeds.
paso_litros(val) ==
    /\ EnPaso("litros")
    /\ IF val.k # "num" THEN Repite
       ELSE Avanza([asistente.state EXCEPT
                      !.litros_despachados = val,
                      !.volumen_despachado_gal = litros_a_gal(val)])

\* Step "contador": both prompts; an empty answer (NULL) takes the default.
paso_contador(ci, cf) ==
    LET contador_inicial_default == fetch_last_contador_final(tabla)
        contador_inicial ==
            IF ci.k = "null" THEN contador_inicial_default ELSE ci
        contador_final_calc ==
            FRound2(FAdd(contador_inicial,
                         asistente.state.litros_despachados))
        contador_final == IF cf.k = "null" THEN contador_final_calc ELSE cf
    IN  /\ EnPaso("contador")
        /\ Avanza([asistente.state EXCEPT
                      !.contador_inicial = FRound2(contador_inicial),
                      !.contador_final = FRound2(contador_final)])

\* Variant of HorasInvalidas that lets zero hours through.
HorasNegativas(horas) == horas.k = "num" /\ horas.v < 0

\* if horas <= 0: the hours worked the wizard refuses.
HorasInvalidas(horas) == horas.k = "num" /\ horas.v <= 0

\* Variant of paso_horometro that keeps a consumption rate computed by an
\* earlier pass through the step.
paso_horometro_una_vez(hi, hf) ==
    LET hi_default ==
            fetch_last_horometro_final(tabla, asistente.state.equipo)
        horometro_inicial == IF hi.k = "null" THEN hi_default ELSE hi
        horas == FRound2(FSub(hf, horometro_inicial))
        consumo ==
            IF asistente.state.consumo_por_gl_h.k = "null"
            THEN FDivRound2(asistente.state.volumen_despachado_gal, horas)
            ELSE asistente.state.consumo_por_gl_h
    IN  /\ EnPaso("horometro")
        /\ IF HorasInvalidas(horas) THEN Repite
           ELSE Avanza([asistente.state EXCEPT
                          !.horometro_inicial = horometro_inicial,
                          !.horometro_final = hf,
                          !.horas_trabajadas = horas,
                          !.consumo_por_gl_h = consumo])

\* Step "horometro": both prompts; horas <= 0 is refused and asked again.
paso_horometro(hi, hf) ==
    LET hi_default ==
            fetch_last_horometro_final(tabla, asistente.state.equipo)
        horometro_inicial == IF hi.k = "null" THEN hi_default ELSE hi
        horas == FRound2(FSub(hf, horometro_inicial))
        consumo == FDivRound2(asistente.state.volumen_despachado_gal, horas)
    IN  /\ EnPaso("horometro")
        /\ IF HorasInvalidas(horas) THEN Repite
           ELSE Avanza([asistente.state EXCEPT
                          !.horometro_inicial = horometro_inicial,
                          !.horometro_final = hf,
                          !.horas_trabajadas = horas,
                          !.consumo_por_gl_h = consumo])

\* Step "precio", the last one: an empty answer (NULL) keeps the price
\* shown; the loop ends and insert_distribucion runs.
paso_precio(p) ==
    LET precio == IF p.k = "null" THEN Num(PrecioActual) ELSE p
        state == [asistente.state EXCEPT !.precio_diesel = precio]
    IN
    /\ EnPaso("precio")
    /\ tabla' = tabla \cup {DatosAsistente(next_id, asistente.tipo, state)}
    /\ next_id' = next_id + 1
    /\ asistente' = Inactivo
    /\ salida' = [NoSalida EXCEPT !.op = "registrar"]

\* The web form, button "Guardar registro".  fecha comes from a date picker,
\* hora is a free text, litros has min_value 0.0; NULL leaves a number input
\* at its default.  A HOROMETRO record with horas <= 0 stops before insert.
guardar_registro(tipo_registro, hora, litros, ci_in, cf_in, hi_in, hf_in) ==
    LET gal == litros_a_gal(litros)
        ci_default == fetch_last_contador_final(tabla)
        contador_inicial == IF ci_in.k = "null" THEN ci_default ELSE ci_in
        contador_final_calc == FRound2(FAdd(contador_inicial, litros))
        contador_final ==
            IF cf_in.k = "null" THEN contador_final_calc ELSE cf_in
        con == tipo_registro = "HOROMETRO"
        hi_default == fetch_last_horometro_final(tabla, "E1")
        horometro_inicial == IF hi_in.k = "null" THEN hi_default ELSE hi_in
        horometro_final == IF hf_in.k = "null" THEN hi_default ELSE hf_in
        horas_trabajadas == FRound2(FSub(horometro_final, horometro_inicial))
        data == [id |-> next_id, fecha |-> Hoy, hora |-> hora,
                 equipo |-> "E1",
                 litros_despachados |-> litros,
                 volumen_despachado |-> Bind(gal),
                 contador_inicial |-> Bind(contador_inicial),
                 contador_final |-> Bind(contador_final),
                 horometro_inicial |->
                    IF con THEN Bind(horometro_inicial) ELSE NULL,
                 horometro_final |->
                    IF con THEN Bind(horometro_final) ELSE NULL,
                 horas_trabajadas |->
                    IF con THEN Bind(horas_trabajadas) ELSE NULL,
                 consumo_por_gl_h |->
                    IF con THEN Bind(FDivRound2(gal, horas_trabajadas))
                    ELSE NULL,
                 precio_diesel |-> Num(PrecioActual),
                 costo_diesel_usd |-> Bind(Costo(gal, Num(PrecioActual))),
                 tipo_registro |-> tipo_registro]
    IN  /\ ~asistente.activo
        /\ next_id <= MaxRegistros
        /\ litros.v >= 0
        /\ UNCHANGED asistente
        /\ IF con /\ horas_trabajadas.v <= 0
           THEN /\ salida' = [NoSalida EXCEPT !.op = "invalido"]
                /\ UNCHANGED <<tabla, next_id>>
           ELSE /\ tabla' = tabla \cup {data}
                /\ next_id' = next_id + 1
                /\ salida' = [NoSalida EXCEPT !.op = "guardar"]

\* The read paths and backfill.
Lecturas_y_backfill ==
    \/ backfill_contadores
    \/ \E desde \in {0, 2} : listar(desde)
    \/ last_contador_final

Next ==
    \/ \E m \in Momentos, l \in Litros, ci \in {NULL, Num(4)},
          cf \in {NULL, Num(30)} :
            registrar_sin_horometro(m, Num(l), ci, cf)
    \/ \E rid \in 1..MaxId, l \in CeldasLitros, ci \in {NULL, Num(4)},
          cf \in {NULL, Num(30)} :
            editar(rid, <<>>, l, ci, cf, NULL, NULL, "")
    \/ \E rid \in 1..MaxId : eliminar(rid)
    \/ backfill_contadores
    \/ \E desde \in {0, 2} : listar(desde)
    \/ last_contador_final

\* The program on a new or migrated table.
Spec == Init /\ [][Next]_vars

\* The read paths and backfill on any table an older version left behind.
SpecLegado == InitLegado /\ [][Lecturas_y_backfill]_vars

\* Variant of OrElse that keeps the stored cell, NULL included.
OrElseNada(c, fallback) == c

\* float(x or 0.0) of the web form: NULL and 0.0 both give the fallback.
OrElse(c, fallback) == IF c.k = "null" \/ c = Num(0) THEN fallback ELSE c

\* The web form, button "Guardar cambios" on a loaded record.  NULL leaves a
\* number input at the value loaded from the record; fecha, hora, equipo,
\* responsable and the price are left as loaded.
guardar_cambios(rid, e_tipo, litros_in, ci_in, cf_in, hi_in, hf_in) ==
    LET rec == RowOf(rid)
        e_litros == IF litros_in.k = "null"
                    THEN OrElse(rec.litros_despachados, Num(0)) ELSE litros_in
        e_gal == litros_a_gal(e_litros)
        e_ci == IF ci_in.k = "null"
                THEN OrElse(rec.contador_inicial, Num(0)) ELSE ci_in
        cf_sug == FRound2(FAdd(e_ci, e_litros))
        e_cf == IF cf_in.k = "null"
                THEN OrElse(rec.contador_final, cf_sug) ELSE cf_in
        e_hi == IF hi_in.k = "null"
                THEN OrElse(rec.horometro_inicial, Num(0)) ELSE hi_in
        e_hf == IF hf_in.k = "null"
                THEN OrElse(rec.horometro_final, Num(0)) ELSE hf_in
        horas == FRound2(FSub(e_hf, e_hi))
        consumo == IF horas.v > 0 THEN FDivRound2(e_gal, horas) ELSE NULL
        con == e_tipo = "HOROMETRO"
        e_precio == OrElse(rec.precio_diesel, Num(PrecioActual))
        data == [id |-> rid, fecha |-> rec.fecha, hora |-> rec.hora,
                 equipo |-> rec.equipo,
                 litros_despachados |-> Bind(e_litros),
                 volumen_despachado |-> Bind(e_gal),
                 contador_inicial |-> Bind(e_ci),
                 contador_final |-> Bind(e_cf),
                 horometro_inicial |-> IF con THEN Bind(e_hi) ELSE NULL,
                 horometro_final |-> IF con THEN Bind(e_hf) ELSE NULL,
                 horas_trabajadas |->
                    IF con /\ horas.v > 0 THEN Bind(horas) ELSE NULL,
                 consumo_por_gl_h |-> IF con THEN Bind(consumo) ELSE NULL,
                 precio_diesel |-> e_precio,
                 costo_diesel_usd |-> Bind(Costo(e_gal, e_precio)),
                 tipo_registro |-> e_tipo]
    IN  /\ ~asistente.activo
        /\ rid \in Ids
        /\ tabla' = (tabla \ {rec}) \cup {data}
        /\ salida' = [NoSalida EXCEPT !.op = "guardar_cambios"]
        /\ UNCHANGED <<next_id, asistente>>

\* Answers to the two prompts of step "contador": both defaults taken, the
\* initial counter typed, the final counter typed.
RespuestasContador == {<<NULL, NULL>>, <<Num(4), NULL>>, <<NULL, Num(30)>>}

\* A database the program has just created.
InitVacio ==
    /\ tabla = {}
    /\ next_id = 1
    /\ salida = NoSalida
    /\ asistente = Inactivo

\* What the operator can do while entering records, in the console or in the
\* web form.
Entrada ==
    \/ \E tipo \in {"HOROMETRO", "SIN_HOROMETRO"} : iniciar_registro(tipo)
    \/ cancelar
    \/ retroceder
    \/ \E val \in {"", "mal"} : paso_fecha(val)
    \/ \E val \in {0, HoraMalformada} : paso_hora(val)
    \/ paso_equipo("E1")
    \/ paso_responsable
    \/ \E val \in {TEXT} \cup {Num(n) : n \in LitrosTecleados} :
          paso_litros(val)
    \/ \E c \in RespuestasContador : paso_contador(c[1], c[2])
    \/ \E hi \in {NULL, Num(100000)}, hf \in {Num(n) : n \in Horometros} :
          paso_horometro(hi, hf)
    \/ paso_precio(NULL)
    \/ \E tipo \in {"HOROMETRO", "SIN_HOROMETRO"},
          hora \in {Ahora, HoraMalformada}, litros \in {Num(0), Num(100000)},
          ci \in {NULL}, cf \in {NULL},
          hi \in {NULL, Num(100000)},
          hf \in {NULL} \cup {Num(n) : n \in Horometros} :
            guardar_registro(tipo, hora, litros, ci, cf, hi, hf)

\* The entry workflows on a new database.
SpecAsistente == InitVacio /\ [][Entrada]_vars

\* The wizards answered with two different amounts of liters, hour-meter
\* readings and prices, every prompt open to B.
Retroceso ==
    \/ \E tipo \in {"HOROMETRO", "SIN_HOROMETRO"} : iniciar_registro(tipo)
    \/ retroceder
    \/ paso_fecha("")
    \/ paso_hora(0)
    \/ paso_equipo("E1")
    \/ paso_responsable
    \/ \E val \in {Num(100000), Num(50000)} : paso_litros(val)
    \/ paso_contador(NULL, NULL)
    \/ \E hf \in {Num(100004), Num(130000)} : paso_horometro(NULL, hf)
    \/ \E p \in {NULL, Num(2000)} : paso_precio(p)

SpecRetroceso == InitVacio /\ [][Retroceso]_vars

\* Records entered in the console or in the web form with both counter
\* prompts left at the value offered; nothing is edited or deleted.
EntradaPorDefecto ==
    \/ \E tipo \in {"HOROMETRO", "SIN_HOROMETRO"} : iniciar_registro(tipo)
    \/ paso_fecha("")
    \/ \E val \in {0, HoraMalformada} : paso_hora(val)
    \/ paso_equipo("E1")
    \/ paso_responsable
    \/ \E val \in {Num(n) : n \in LitrosTecleados} : paso_litros(val)
    \/ paso_contador(NULL, NULL)
    \/ \E hf \in {Num(n) : n \in Horometros} : paso_horometro(NULL, hf)
    \/ paso_precio(NULL)
    \/ \E tipo \in {"HOROMETRO", "SIN_HOROMETRO"},
          hora \in {Ahora, HoraMalformada}, litros \in {Num(0), Num(100000)},
          hf \in {Num(n) : n \in Horometros} :
            guardar_registro(tipo, hora, litros, NULL, NULL, NULL, hf)

SpecCadena == InitVacio /\ [][EntradaPorDefecto]_vars

\* Rows an older version left behind on one day at one time, in the order
\* of their ids: any counter cell or the liters may still be NULL.
FilasDelDia(i) ==
    {[id |-> i, fecha |-> Hoy, hora |-> Ahora, litros_despachados |-> l,
      contador_inicial |-> ci, contador_final |-> cf] @@ ColumnasLegado :
        l \in CeldasLitros, ci \in Celdas, cf \in Celdas}

RECURSIVE TablasDelDia(_)
TablasDelDia(n) ==
    IF n = 0 THEN {{}}
    ELSE {t \cup {r} : t \in TablasDelDia(n - 1), r \in FilasDelDia(n)}

InitDelDia ==
    /\ \E n \in 0..MaxId : tabla \in TablasDelDia(n) /\ next_id = n + 1
    /\ salida = NoSalida
    /\ asistente = Inactivo

\* Records of a table an older version left behind, edited in the console or
\* in the web form with every prompt left at the value offered, then listed
\* and backfilled.
EdicionLegado ==
    \/ \E rid \in 1..MaxId :
          editar(rid, <<>>, NULL, NULL, NULL, NULL, NULL, "")
    \/ \E rid \in 1..MaxId :
          guardar_cambios(rid, "SIN_HOROMETRO", NULL, NULL, NULL, NULL, NULL)
    \/ backfill_contadores
    \/ listar(0)

SpecEdicionLegado == InitDelDia /\ [][EdicionLegado]_vars

\* Answers to the two hour-meter inputs: both left as shown, a later final
\* reading typed, the same reading typed twice.
RespuestasHorometro ==
    {<<NULL, NULL>>, <<Num(100000), Num(130000)>>,
     <<Num(100000), Num(100000)>>}

\* The inputs of an insert while ids up to MaxEditados are left, none after.
Cupo(S) == IF next_id <= MaxEditados THEN S ELSE {}

\* Records entered, then edited or deleted, in the console or in the web
\* form.
Edicion ==
    \/ \E tipo \in {"HOROMETRO", "SIN_HOROMETRO"},
          hora \in {Ahora, HoraMalformada},
          litros \in {Num(n) : n \in Cupo({0, 100000})},
          h \in RespuestasHorometro :
            guardar_registro(tipo, hora, litros, NULL, NULL, h[1], h[2])
    \/ \E l \in Cupo(LitrosTecleados) :
          registrar_sin_horometro(<<Hoy, Ahora>>, Num(l), NULL, NULL)
    \/ \E rid \in 1..MaxEditados, l \in {NULL, Num(100000)},
          h \in RespuestasHorometro,
          tipo \in {"", "HOROMETRO", "SIN_HOROMETRO"} :
            editar(rid, <<>>, l, NULL, NULL, h[1], h[2], tipo)
    \/ \E rid \in 1..MaxEditados, e_tipo \in {"HOROMETRO", "SIN_HOROMETRO"},
          l \in {NULL, Num(34)}, h \in RespuestasHorometro :
            guardar_cambios(rid, e_tipo, l, NULL, NULL, h[1], h[2])
    \/ \E rid \in 1..MaxEditados : eliminar(rid)

SpecEdicion == InitVacio /\ [][Edicion]_vars

\* Rows of 0.034 liters entered for two pieces of equipment, without
\* hour-meter or with one read from 0 up to 100.004 or 130 hours.
FilasHorometro(i) ==
    {[id |-> i, fecha |-> m[1], hora |-> m[2], equipo |-> e,
      litros_despachados |-> Num(34), volumen_despachado |-> Num(10),
      contador_inicial |-> NULL, contador_final |-> NULL,
      horometro_inicial |-> IF hf = NULL THEN NULL ELSE Num(0),
      horometro_final |-> hf,
      horas_trabajadas |-> IF hf = NULL THEN NULL ELSE FRound2(hf),
      consumo_por_gl_h |-> IF hf = NULL THEN NULL ELSE Num(0),
      precio_diesel |-> Num(PrecioActual), costo_diesel_usd |-> Num(30),
      tipo_registro |-> IF hf = NULL THEN "SIN_HOROMETRO" ELSE "HOROMETRO"] :
        m \in Momentos, e \in {"E1", "E2"},
        hf \in {NULL, Num(100004), Num(130000)}}

RECURSIVE TablasHorometro(_)
TablasHorometro(n) ==
    IF n = 0 THEN {{}}
    ELSE {t \cup {r} : t \in TablasHorometro(n - 1), r \in FilasHorometro(n)}

InitHorometro ==
    /\ \E n \in 0..MaxId : tabla \in TablasHorometro(n) /\ next_id = n + 1
    /\ salida = NoSalida
    /\ asistente = Inactivo

Consultas == \E equipo \in {"E1", "E2"} : last_horometro_final(equipo)

\* The hour-meter default on a table with records of two pieces of equipment.
SpecHorometro == InitHorometro /\ [][Consultas]_vars

\* The derived sequence and backfill on a table with text in counter cells.
Listar_o_backfill ==
    \/ backfill_contadores
    \/ \E desde \in {0, 2} : listar(desde)

SpecTexto == InitTexto /\ [][Listar_o_backfill]_vars

\* Rows of a table older than the counter columns: both counters NULL.
FilasSuma(i) ==
    {[id |-> i, fecha |-> m[1], hora |-> m[2], litros_despachados |-> l,
      contador_inicial |-> NULL, contador_final |-> NULL] @@ ColumnasLegado :
        m \in Momentos, l \in {NULL} \cup {Num(n) : n \in LitrosSuma}}

RECURSIVE TablasSuma(_)
TablasSuma(n) ==
    IF n = 0 THEN {{}}
    ELSE {t \cup {r} : t \in TablasSuma(n - 1), r \in FilasSuma(n)}

InitSuma ==
    /\ \E n \in 0..MaxId : tabla \in TablasSuma(n) /\ next_id = n + 1
    /\ salida = NoSalida
    /\ asistente = Inactivo

Listados == \E desde \in {0, 2} : listar(desde)

\* The derived sequence on a table without stored counters.
SpecSuma == InitSuma /\ [][Listados]_vars

\* The dicts update_distribucion is called with: the two counters (as
\* backfill does) or the liters.
DatosUpdate ==
    {[contador_inicial |-> Num(4), contador_final |-> Num(30)],
     [litros_despachados |-> Num(34)]}

Almacen ==
    \/ \E rid \in 1..MaxId : fetch_by_id(rid)
    \/ \E rid \in 1..MaxId : delete_distribucion(rid)
    \/ \E rid \in 1..MaxId, data \in DatosUpdate :
          update_distribucion(rid, data)
    \/ \E rid \in 1..MaxId, l \in {NULL, Num(34)} :
          editar(rid, <<>>, l, NULL, NULL, NULL, NULL, "")
    \/ \E rid \in 1..MaxId : eliminar(rid)

\* The store functions, editar and eliminar, called with ids the table has
\* and ids it has not.
SpecAlmacen == InitSuma /\ [][Almacen]_vars

\* Rows of two months in a table an older version left behind.
FilasExport(i) ==
    {[id |-> i, fecha |-> f, hora |-> 1, litros_despachados |-> l,
      contador_inicial |-> ci, contador_final |-> cf] @@ ColumnasLegado :
        f \in {1, 3}, l \in CeldasLitros, ci \in Celdas, cf \in Celdas}

RECURSIVE TablasExport(_)
TablasExport(n) ==
    IF n = 0 THEN {{}}
    ELSE {t \cup {r} : t \in TablasExport(n - 1), r \in FilasExport(n)}

InitExport ==
    /\ \E n \in 0..MaxId : tabla \in TablasExport(n) /\ next_id = n + 1
    /\ salida = NoSalida
    /\ asistente = Inactivo

\* What is found at the template path.
Plantillas == {"ok", "ausente", "sin_hoja"}

Exportaciones ==
    \/ \E mes \in 0..2, plantilla \in Plantillas : exportar_mes(mes, plantilla)
    \/ \E mes \in 0..2, plantilla \in Plantillas : exportar_web(mes, plantilla)

\* The exports on a table with records of two months.
SpecExport == InitExport /\ [][Exportaciones]_vars

\* ------------------------------------------------------------------------
\* Properties
\* ------------------------------------------------------------------------
\* The frame listar displayed.
Filas == salida.out.rows

NFilas == Len(salida.out.rows)

Listado == salida.op = "listar" /\ ~salida.out.raised

Presente(c) == c.k = "num"

C2_BackfillFixpoint ==
    salida.op = "backfill" => Needs(tabla) = {}

\* C3: a step of backfill leaves every row that had both counters stored
\* exactly as it was.
C3_StoredPrecedence ==
    [][salida'.op = "backfill" =>
          \A r \in tabla :
              (r.contador_inicial # NULL /\ r.contador_final # NULL) =>
                  r \in tabla']_vars

\* C3 witness: backfill has updated some row, and a row keeps stored counters
\* (third decimal, which backfill never writes) that do not continue the
\* final counter of an earlier row.
C3_Witness ==
    /\ salida.op = "backfill"
    /\ salida.updated_rows > 0
    /\ \E r \in tabla, q \in tabla :
          /\ Antes(q, r)
          /\ r.contador_inicial = Num(4)
          /\ r.contador_final = Num(4)
          /\ q.contador_final # r.contador_inicial

\* C4: the default initial counter offered for a new record is the value of
\* prev_final that the derived sequence holds after the last row of the
\* table (0.0 on an empty table).
C4_LastIsFoldCarry ==
    salida.op = "last_contador_final" =>
        salida.ci_default =
            IF tabla = {} THEN Num(0)
            ELSE PrevFinal(sort_values(SelectAsc(tabla)), Cardinality(tabla))

\* The latest row, by (fecha, hora, id), among those with a stored final
\* counter.
EsUltimaConFinal(r) ==
    /\ r \in tabla
    /\ r.contador_final # NULL
    /\ \A y \in tabla : Antes(r, y) => y.contador_final = NULL

\* C5, as stated: the default initial counter is the stored final counter of
\* the latest row that has one, and 0.0 when no row has one.
C5_LastStoredEnd ==
    salida.op = "last_contador_final" =>
        /\ \A r \in tabla :
              EsUltimaConFinal(r) => salida.ci_default = r.contador_final
        /\ (\A r \in tabla : r.contador_final = NULL) =>
              salida.ci_default = Num(0)

\* C5, amended: the default initial counter is the stored final counter,
\* rounded to 2 decimals, of the latest row that has one, and 0.0 when no row
\* has one.
C5_LastStoredEndRounded ==
    salida.op = "last_contador_final" =>
        /\ \A r \in tabla :
              EsUltimaConFinal(r) =>
                  salida.ci_default = FRound2(r.contador_final)
        /\ (\A r \in tabla : r.contador_final = NULL) =>
              salida.ci_default = Num(0)

\* C5 witness: the query returned the final counter of a row that is followed
\* by a later row without final counter.
C5_Witness ==
    /\ salida.op = "last_contador_final"
    /\ salida.ci_default = Num(30)
    /\ \E r \in tabla, y \in tabla :
          /\ EsUltimaConFinal(r)
          /\ r.contador_final = Num(30)
          /\ Antes(r, y)

\* C6: when every row of a listing has both counters stored, applying the
\* derived sequence to the returned frame returns that frame again.
C6_FoldIdempotent ==
    (/\ Listado
     /\ \A i \in 1..NFilas : /\ Presente(Filas[i].contador_inicial)
                             /\ Presente(Filas[i].contador_final)) =>
        aplicar_secuencia_contador(Filas) = salida.out

\* C6 witness: a listing of at least two rows, all with both counters stored,
\* one of them with a third decimal.
C6_Witness ==
    /\ Listado
    /\ NFilas >= 2
    /\ \A i \in 1..NFilas : /\ Presente(Filas[i].contador_inicial)
                            /\ Presente(Filas[i].contador_final)
    /\ \E i \in 1..NFilas : Filas[i].contador_inicial = Num(4)

\* C7: in every listing, a row with neither liters nor final counter stored
\* resolves its final counter to its resolved initial counter, and a
\* following row without stored initial counter starts from that value.
C7_LitrosAusentesComoCero ==
    Listado =>
        \A i \in 1..NFilas :
            (Filas[i].litros_despachados = NULL
             /\ Filas[i].contador_final = NULL) =>
                /\ Filas[i].contador_final_calc = Filas[i].contador_inicial_calc
                /\ (i < NFilas /\ Filas[i + 1].contador_inicial = NULL) =>
                      Filas[i + 1].contador_inicial_calc =
                          Filas[i].contador_inicial_calc

\* The derived columns of a result.
Derivadas(res) ==
    [raised |-> res.raised,
     rows |-> [i \in 1..Len(res.rows) |->
                 [id |-> res.rows[i].id,
                  contador_inicial_calc |-> res.rows[i].contador_inicial_calc,
                  contador_final_calc |-> res.rows[i].contador_final_calc,
                  contador_inicial_show |-> res.rows[i].contador_inicial_show,
                  contador_final_show |-> res.rows[i].contador_final_show,
                  Delta_Litros |-> res.rows[i].Delta_Litros,
                  Secuencia_Contador |-> res.rows[i].Secuencia_Contador]]]

\* The rows with every text counter cell replaced by NULL.
SinTexto(rows) ==
    {[r EXCEPT !.contador_inicial = IF @.k = "text" THEN NULL ELSE @,
               !.contador_final = IF @.k = "text" THEN NULL ELSE @] :
        r \in rows}

\* C8: a listing of rows with text in counter cells does not raise and shows
\* the derived columns it shows for the same rows with NULL in those cells.
C8_TextoComoNull ==
    salida.op = "listar" =>
        Derivadas(salida.out) =
            Derivadas(aplicar_secuencia_contador(
                SelectDesc(SinTexto(Filtrar(tabla, salida.desde)))))

\* The row that the derived sequence over the whole table gives for id rid.
FilaDerivada(rows, rid) ==
    LET res == aplicar_secuencia_contador(SelectAsc(rows))
    IN  CHOOSE f \in {res.rows[i] : i \in 1..Len(res.rows)} : f.id = rid

\* C9: a step of backfill on a table that has rows writes, to exactly the
\* rows with a NULL counter, the two counters the derived sequence over the
\* whole table resolves for them, and reports their number.
C9_BackfillEscribeDerivados ==
    [][(salida'.op = "backfill" /\ tabla # {}) =>
          /\ salida'.updated_rows = Cardinality(Needs(tabla))
          /\ \A r \in tabla :
                IF r \in Needs(tabla)
                THEN \E w \in tabla' :
                        /\ w = [r EXCEPT
                                  !.contador_inicial = w.contador_inicial,
                                  !.contador_final = w.contador_final]
                        /\ w.contador_inicial =
                              FilaDerivada(tabla, r.id).contador_inicial_calc
                        /\ w.contador_final =
                              FilaDerivada(tabla, r.id).contador_final_calc
                ELSE r \in tabla']_vars

\* C10: in every listing each row shows the stored counter when there is one
\* and the resolved one otherwise, Delta_Litros is the shown final minus the
\* shown initial rounded to 2 decimals, and a row without stored initial
\* counter starts from the resolved final counter of the row before it.
C10_DisplayAndCarry ==
    Listado =>
        \A i \in 1..NFilas :
            LET f == Filas[i]
            IN  /\ f.contador_inicial_show =
                      IF f.contador_inicial # NULL THEN f.contador_inicial
                      ELSE f.contador_inicial_calc
                /\ f.contador_final_show =
                      IF f.contador_final # NULL THEN f.contador_final
                      ELSE f.contador_final_calc
                /\ f.Delta_Litros =
                      FRound2(FSub(f.contador_final_show,
                                   f.contador_inicial_show))
                /\ (i > 1 /\ f.contador_inicial = NULL) =>
                      f.contador_inicial_calc =
                          Filas[i - 1].contador_final_calc

\* C10 witness: a listing with a row that shows a stored initial counter with
\* a third decimal next to a derived final counter, followed by a row that
\* starts from that derived final counter.
C10_Witness ==
    /\ Listado
    /\ \E i \in 1..(NFilas - 1) :
          /\ Filas[i].contador_inicial = Num(4)
          /\ Filas[i].contador_final = NULL
          /\ Filas[i].contador_inicial_show = Num(4)
          /\ Filas[i].contador_final_show = Num(40)
          /\ Filas[i].Delta_Litros = Num(40)
          /\ Filas[i + 1].contador_inicial = NULL
          /\ Filas[i + 1].contador_inicial_calc = Num(40)

\* Sum of the liters of rows 1..i of the listing, in thousandths.
RECURSIVE SumaLitros(_)
SumaLitros(i) ==
    IF i = 0 THEN 0 ELSE SumaLitros(i - 1) + Filas[i].litros_despachados.v

\* A listing whose rows all have liters and no stored counter.
SoloLitros ==
    /\ Listado
    /\ \A i \in 1..NFilas : /\ Filas[i].contador_inicial = NULL
                            /\ Filas[i].contador_final = NULL
                            /\ Presente(Filas[i].litros_despachados)

\* C11, as stated: in a listing whose rows have no stored counter, each row
\* starts at the sum of the liters of the rows before it (0.00 for the first)
\* and ends at that start plus its own liters.
C11_SumaDeLitros ==
    SoloLitros =>
        \A i \in 1..NFilas :
            /\ Filas[i].contador_inicial_calc = Num(SumaLitros(i - 1))
            /\ Filas[i].contador_final_calc = Num(SumaLitros(i))

\* C11, amended: the same when every liters value has at most 2 decimals.
C11_SumaDeLitros2Dec ==
    (/\ SoloLitros
     /\ \A i \in 1..NFilas : Filas[i].litros_despachados.v % 10 = 0) =>
        \A i \in 1..NFilas :
            /\ Filas[i].contador_inicial_calc = Num(SumaLitros(i - 1))
            /\ Filas[i].contador_final_calc = Num(SumaLitros(i))

\* C11 witness: liters [50, 30] listed as 0.00 -> 50.00 and 50.00 -> 80.00.
C11_Witness ==
    /\ SoloLitros
    /\ NFilas = 2
    /\ Filas[1].litros_despachados = Num(50000)
    /\ Filas[2].litros_despachados = Num(30000)
    /\ Filas[1].Secuencia_Contador = <<Num(0), Num(5000)>>
    /\ Filas[2].Secuencia_Contador = <<Num(5000), Num(8000)>>

\* The stored final counter is the one the entry form derives from the stored
\* initial counter and the liters.
FinalDerivado(r) ==
    /\ Presente(r.contador_inicial)
    /\ Presente(r.contador_final)
    /\ Presente(r.litros_despachados)
    /\ r.contador_final =
          FRound2(FAdd(r.contador_inicial, r.litros_despachados))

\* C12: for every record stored by the entry workflows whose final counter is
\* the derived one, the derived sequence over the table resolves a final
\* counter that is not below the resolved initial counter.
C12_DerivadoNoDecrece ==
    \A r \in tabla :
        FinalDerivado(r) =>
            FilaDerivada(tabla, r.id).contador_final_calc.v >=
                FilaDerivada(tabla, r.id).contador_inicial_calc.v

\* C13: no step of the entry workflows adds a HOROMETRO record whose final
\* hour-meter reading minus the initial one is <= 0, and a refused
\* submission leaves the table as it was.
C13_RechazaHorasNoPositivas ==
    [][/\ \A r \in tabla' \ tabla :
             (/\ r.tipo_registro = "HOROMETRO"
              /\ Presente(r.horometro_inicial)
              /\ Presente(r.horometro_final)) =>
                r.horometro_final.v - r.horometro_inicial.v > 0
       /\ salida'.op = "invalido" => tabla' = tabla]_vars

\* C13 witness: the hour-meter step has just refused the readings, after a
\* HOROMETRO record from 100 to 130 hours had been stored.
C13_Witness ==
    /\ EnPaso("horometro")
    /\ salida.op = "invalido"
    /\ \E r \in tabla : /\ r.tipo_registro = "HOROMETRO"
                        /\ r.horometro_inicial = Num(100000)
                        /\ r.horometro_final = Num(130000)
                        /\ r.horas_trabajadas = Num(30000)

\* C14: every stored record of kind HOROMETRO has hours worked stored and
\* greater than 0.
C14_HorasPositivas ==
    \A r \in tabla :
        r.tipo_registro = "HOROMETRO" =>
            Presente(r.horas_trabajadas) /\ r.horas_trabajadas.v > 0

\* C15: every stored record of kind SIN_HOROMETRO has the two hour-meter
\* readings, the hours worked and the consumption rate all NULL.
C15_SinHorometroTodoNull ==
    \A r \in tabla :
        r.tipo_registro = "SIN_HOROMETRO" =>
            /\ r.horometro_inicial = NULL
            /\ r.horometro_final = NULL
            /\ r.horas_trabajadas = NULL
            /\ r.consumo_por_gl_h = NULL

\* g (thousandths of a gallon) is litros * 0.264172 to the nearest hundredth.
EsGalonesDe(g, litros) ==
    LET micro == (litros.v \div 1000) * 264172
                 + ((litros.v % 1000) * 264172) \div 1000
        dif == micro - g.v * 1000
    IN  /\ Presente(g)
        /\ g.v % 10 = 0
        /\ dif <= 5000
        /\ 0 - dif <= 5000

\* C16: after every step each record with liters has gallons equal to
\* round(liters * 0.264172, 2), and a record whose liters the step did not
\* change keeps its gallons.
C16_GalonesDeLitros ==
    [][/\ \A w \in tabla' :
             Presente(w.litros_despachados) =>
                EsGalonesDe(w.volumen_despachado, w.litros_despachados)
       /\ \A r \in tabla, w \in tabla' :
             (w.id = r.id /\ w.litros_despachados = r.litros_despachados) =>
                w.volumen_despachado = r.volumen_despachado]_vars

\* C16 witness: an edit in the web form has set the liters to 0.034 in a
\* record, which now holds 0.01 gallons (100 liters hold 26.42).
C16_Witness ==
    /\ salida.op = "guardar_cambios"
    /\ litros_a_gal(Num(100000)) = Num(26420)
    /\ \E r \in tabla : /\ r.litros_despachados = Num(34)
                        /\ r.volumen_despachado = Num(10)

\* A record with every column of the entry set.
Completo(r) ==
    /\ r.fecha # 0
    /\ r.hora # 0
    /\ r.equipo # ""
    /\ Presente(r.litros_despachados)
    /\ Presente(r.volumen_despachado)
    /\ Presente(r.contador_inicial)
    /\ Presente(r.contador_final)
    /\ r.tipo_registro = "HOROMETRO" =>
          /\ Presente(r.horometro_inicial)
          /\ Presente(r.horometro_final)
          /\ Presente(r.horas_trabajadas)
          /\ Presente(r.consumo_por_gl_h)

\* C17: a step of an entry workflow changes the table only by inserting one
\* complete record under the next id; in the wizard that step is the last
\* one and ends the run; a cancelled, refused or stepped-back prompt leaves
\* the table as it was.
C17_UnSoloInsertCompleto ==
    [][/\ tabla' # tabla =>
             /\ \E r \in tabla' :
                   /\ tabla' = tabla \cup {r}
                   /\ r.id = next_id
                   /\ Completo(r)
             /\ next_id' = next_id + 1
             /\ asistente.activo =>
                   /\ asistente.i = Len(steps(asistente.tipo))
                   /\ ~asistente'.activo
       /\ salida'.op \in {"cancelado", "invalido", "retrocede", "paso",
                           "inicio"} =>
             tabla' = tabla]_vars

\* C17 witness: a run of the wizard has just been cancelled, after an earlier
\* run had stored its record.
C17_Witness ==
    /\ salida.op = "cancelado"
    /\ ~asistente.activo
    /\ Cardinality(tabla) = 1
    /\ next_id = 2

\* C18: every stored record has a time in HH:MM form.
C18_HoraValida ==
    \A r \in tabla : r.hora # HoraMalformada

\* C19: every stored record has liters >= 0.
C19_LitrosNoNegativos ==
    \A r \in tabla :
        Presente(r.litros_despachados) /\ r.litros_despachados.v >= 0

\* The latest row, by (fecha, hora, id), among those of the equipment with a
\* stored final hour-meter reading.
EsUltimaDelEquipo(r, equipo) ==
    /\ r \in tabla
    /\ r.equipo = equipo
    /\ r.horometro_final # NULL
    /\ \A y \in tabla :
          (y.equipo = equipo /\ Antes(r, y)) => y.horometro_final = NULL

\* C20, as stated: the default hour-meter reading of an equipment is the
\* stored final reading of its latest record that has one, and 0.0 when it
\* has none.
C20_UltimoHorometro ==
    salida.op = "last_horometro_final" =>
        /\ \A r \in tabla :
              EsUltimaDelEquipo(r, salida.equipo) =>
                  salida.hi_default = r.horometro_final
        /\ (\A r \in tabla : r.equipo = salida.equipo =>
                                r.horometro_final = NULL) =>
              salida.hi_default = Num(0)

\* C20, amended: the default is that stored final reading rounded to 2
\* decimals.
C20_UltimoHorometroRedondeado ==
    salida.op = "last_horometro_final" =>
        /\ \A r \in tabla :
              EsUltimaDelEquipo(r, salida.equipo) =>
                  salida.hi_default = FRound2(r.horometro_final)
        /\ (\A r \in tabla : r.equipo = salida.equipo =>
                                r.horometro_final = NULL) =>
              salida.hi_default = Num(0)

\* C20 witness: the query for E1 returned the 130 hours of its record while a
\* later record of E2 holds another final reading.
C20_Witness ==
    /\ salida.op = "last_horometro_final"
    /\ salida.equipo = "E1"
    /\ salida.hi_default = Num(130000)
    /\ \E r \in tabla, y \in tabla :
          /\ EsUltimaDelEquipo(r, "E1")
          /\ y.equipo = "E2"
          /\ y.horometro_final = Num(100004)
          /\ Antes(r, y)

\* The file the console export has just written.
Exportado == salida.op = "exportar_mes" /\ salida.archivo.escrito

\* C21: every row of an exported sheet carries a counter start and a counter
\* end: the stored value, or the derived one when the month stores none.
C21_CadaFilaConContador ==
    Exportado =>
        \A i \in 1..Len(salida.archivo.filas) :
            /\ Presente(salida.archivo.filas[i].contador_inicial)
            /\ Presente(salida.archivo.filas[i].contador_final)

\* An export has just run on a month typed as YYYY-MM.
Exporto == salida.op \in {"exportar_mes", "exportar_web"} /\ salida.mes # 0

\* C22: an export writes a file only when the month has a record and the
\* template exists and holds the sheet; without records it reports that
\* there are none, without template or sheet it reports that, and in both
\* cases it neither raises nor writes a file.
C22_ArchivoSoloSiHayDatosYPlantilla ==
    /\ salida.op # "exportar_error"
    /\ Exporto =>
          LET vacio == DelMes(tabla, salida.mes) = <<>>
              falta == salida.plantilla # "ok"
          IN  /\ salida.archivo.escrito <=> (~vacio /\ ~falta)
              /\ (vacio /\ ~falta) => salida.aviso = "sin_registros"
              /\ (~vacio /\ falta) =>
                    salida.aviso \in {"sin_plantilla", "sin_hoja"}
              /\ (vacio /\ falta) =>
                    salida.aviso \in {"sin_registros", "sin_plantilla",
                                      "sin_hoja"}

\* C23: fetch, delete and update addressed to an id no record has return
\* no record, return false and change nothing, and leave the table as it
\* was; so do editar and eliminar, which report that the id does not exist.
\* A delete of an existing id returns true and removes exactly that record.
C23_IdInexistente ==
    [][/\ salida'.op = "fetch_by_id" =>
             /\ tabla' = tabla
             /\ salida'.rec = {r \in tabla : r.id = salida'.rid}
       /\ salida'.op = "delete_distribucion" =>
             /\ salida'.ok <=> (salida'.rid \in Ids)
             /\ tabla' = {r \in tabla : r.id # salida'.rid}
       /\ salida'.op = "update_distribucion" =>
             /\ salida'.rid \notin Ids => tabla' = tabla
             /\ \A r \in tabla : r.id # salida'.rid => r \in tabla'
       /\ salida'.op = "no_existe" =>
             /\ salida'.rid \notin Ids
             /\ tabla' = tabla]_vars

\* C23 witness: a delete of an id the table has not returned false on a
\* table of one record, after the delete of the other id had returned true.
C23_Witness ==
    /\ salida.op = "delete_distribucion"
    /\ ~salida.ok
    /\ salida.rid \notin Ids
    /\ next_id = 3
    /\ Cardinality(tabla) = 1

\* Every order in which the rows can be supplied.
Ordenes(rows) ==
    LET n == Cardinality(rows)
    IN  {f \in [1..n -> rows] : \A i, j \in 1..n : f[i] = f[j] => i = j}

\* C24: the frame a listing shows, built from the descending scan, is the
\* one the derived sequence gives for the same rows supplied in any order,
\* and its rows follow (fecha, hora, id) ascending, whatever their ids.
C24_SoloOrdenCausal ==
    Listado =>
        /\ \A df \in Ordenes(Filtrar(tabla, salida.desde)) :
              aplicar_secuencia_contador(df) = salida.out
        /\ \A i, j \in 1..NFilas : i < j => Antes(Filas[i], Filas[j])

\* C24 witness: a listing in which the record entered second (id 2), dated
\* before the first, comes first and hands its final counter to the record
\* of id 1.
C24_Witness ==
    /\ Listado
    /\ salida.desde = 0
    /\ NFilas = 2
    /\ Filas[1].id = 2
    /\ Filas[2].id = 1
    /\ Filas[1].contador_final_calc = Num(30)
    /\ Filas[2].contador_inicial = NULL
    /\ Filas[2].contador_inicial_calc = Num(30)

\* C25: at every step of both wizards B leads to the step before (the first
\* step stays), Q ends the run, and an accepted answer leads to the next
\* step, the answers given so far being kept.
C25_MaquinaLineal ==
    [][/\ salida'.tecla = "B" =>
             asistente' = [asistente EXCEPT
                             !.i = IF @ > 1 THEN @ - 1 ELSE 1]
       /\ salida'.tecla = "Q" => asistente' = Inactivo
       /\ salida'.op = "paso" =>
             /\ asistente'.activo
             /\ asistente'.tipo = asistente.tipo
             /\ asistente'.i = asistente.i + 1]_vars

\* C26: the record a wizard inserts holds the liters, hour-meter readings
\* and price answered last, the gallons of those liters, the consumption
\* rate of those gallons over those hours and the cost of those gallons at
\* that price.
C26_CalculadoDeLoUltimo ==
    [][tabla' # tabla =>
          \E r \in tabla' \ tabla :
              LET state == asistente.state
                  gal == litros_a_gal(state.litros_despachados)
              IN  /\ r.litros_despachados = state.litros_despachados
                  /\ r.volumen_despachado = gal
                  /\ Presente(r.precio_diesel)
                  /\ r.costo_diesel_usd = Costo(gal, r.precio_diesel)
                  /\ r.tipo_registro = "HOROMETRO" =>
                        /\ r.horometro_inicial = state.horometro_inicial
                        /\ r.horometro_final = state.horometro_final
                        /\ r.horas_trabajadas =
                              FRound2(FSub(state.horometro_final,
                                           state.horometro_inicial))
                        /\ r.consumo_por_gl_h =
                              FDivRound2(gal, r.horas_trabajadas)]_vars

\* C26 witness: B has led back to the liters step of a run that had already
\* answered 100 liters and computed a consumption rate from them, after an
\* earlier run had stored a record of 50 liters at the price typed.
C26_Witness ==
    /\ salida.op = "retrocede"
    /\ EnPaso("litros")
    /\ asistente.state.litros_despachados = Num(100000)
    /\ Presente(asistente.state.consumo_por_gl_h)
    /\ \E r \in tabla : /\ r.litros_despachados = Num(50000)
                        /\ r.volumen_despachado = Num(13210)
                        /\ r.precio_diesel = Num(2000)
                        /\ r.costo_diesel_usd = Num(26420)

\* The counters shown for id rid by the derived sequence over rows, rounded
\* to 2 decimals.
Mostrado(rows, rid) ==
    <<FRound2(FilaDerivada(rows, rid).contador_inicial_show),
      FRound2(FilaDerivada(rows, rid).contador_final_show)>>

Vista(rows, rid) ==
    <<FilaDerivada(rows, rid).contador_inicial_show,
      FilaDerivada(rows, rid).contador_final_show>>

\* C28: right after a run of backfill, the counters the derived sequence
\* shows for a record are the same over every part of the table that holds
\* the record as over the whole table.
C28_VistaIgualEnSubconjuntos ==
    salida.op = "backfill" =>
        \A S \in SUBSET tabla :
            \A r \in S : Vista(S, r.id) = Vista(tabla, r.id)

\* Every record of df was the latest in (fecha, hora, id) order when it was
\* inserted: the order by moment is the order by id.
CadaUnoElUltimo(df) ==
    \A i \in 1..Len(df) : \A j \in 1..Len(df) : i < j => df[i].id < df[j].id

\* The stored counters of df form one chain that starts at 0.0.
CadenaContinua(df) ==
    /\ df[1].contador_inicial = Num(0)
    /\ \A i \in 2..Len(df) :
          df[i].contador_inicial = df[i - 1].contador_final

\* C29: on a database that started empty, where every record was entered
\* with the offered initial counter and the offered final counter and was
\* the latest record when entered, and nothing was edited or deleted, the
\* first record stores the initial counter 0.0 and every other record
\* stores as initial counter the final counter stored in the record before
\* it in (fecha, hora, id) order.
C29_CadenaContinua ==
    LET df == SelectAsc(tabla)
    IN  (tabla # {} /\ CadaUnoElUltimo(df)) => CadenaContinua(df)

\* Two records, the second one starting where the first one ended, above 0.
C29_Witness ==
    LET df == SelectAsc(tabla)
    IN  /\ Cardinality(tabla) = 2
        /\ CadaUnoElUltimo(df)
        /\ df[1].contador_final.v > 0
        /\ df[2].contador_inicial = df[1].contador_final
        /\ df[2].contador_final.v > df[2].contador_inicial.v

\* The liters of record r, 0 when it has none.
LitrosO0(r) ==
    IF Presente(r.litros_despachados) THEN r.litros_despachados ELSE Num(0)

\* The step is an edit with the offered counters accepted; Final(r) is the
\* final counter a record r without counters is expected to get.
EdicionEscribe(Final(_)) ==
    salida'.op \in {"editar", "guardar_cambios"} =>
        \A w \in tabla' \ tabla :
            /\ Presente(w.contador_inicial)
            /\ Presente(w.contador_final)
            /\ \A r \in tabla :
                  (/\ r.id = w.id
                   /\ r.contador_inicial = NULL
                   /\ r.contador_final = NULL) =>
                      /\ w.contador_inicial = Num(0)
                      /\ w.contador_final = Final(r)

\* Stored counters win: backfill leaves a record with both counters
\* untouched, and a listing shows them as stored.
AlmacenadoPrevalece ==
    /\ salida'.op = "backfill" =>
          \A r \in tabla :
              (Presente(r.contador_inicial) /\ Presente(r.contador_final))
                  => r \in tabla'
    /\ salida'.op = "listar" =>
          \A i \in 1..Len(salida'.out.rows) :
              LET f == salida'.out.rows[i]
                  r == CHOOSE x \in tabla' : x.id = f.id
              IN  (Presente(r.contador_inicial)
                     /\ Presente(r.contador_final)) =>
                      /\ f.contador_inicial_show = r.contador_inicial
                      /\ f.contador_final_show = r.contador_final

\* C30, as stated: an edit with the offered counters accepted stores both
\* counters; on a record that had neither it stores the initial counter 0.0
\* and the final counter 0.0 + liters, whatever the derived sequence gave
\* the record; backfill and listings afterwards keep the stored values.
C30_EdicionEscribeContadores ==
    [][EdicionEscribe(LAMBDA r : FAdd(Num(0), LitrosO0(r)))
         /\ AlmacenadoPrevalece]_vars

\* C30, amended: the same, the final counter being 0.0 + liters rounded to 2
\* decimals.
C30_EdicionEscribeRedondeado ==
    [][EdicionEscribe(LAMBDA r : FRound2(FAdd(Num(0), LitrosO0(r))))
         /\ AlmacenadoPrevalece]_vars

\* C30 witness: right after an edit, a record stores the initial counter 0.0
\* and the final counter 0.03 for its 0.034 liters although the record
\* before it stores a final counter above 0.
C30_Witness ==
    /\ salida.op \in {"editar", "guardar_cambios"}
    /\ \E p \in tabla, r \in tabla :
          /\ Antes(p, r)
          /\ Presente(p.contador_final) /\ p.contador_final.v > 0
          /\ r.litros_despachados = Num(34)
          /\ r.contador_inicial = Num(0)
          /\ r.contador_final = Num(30)

====
